---------------------------- MODULE Spec2Model ----------------------------
(***************************************************************************)
(* A model of hopperpw/main/models.py: the Domain, Host and                *)
(* BlacklistedDomain tables, the field validators, the Host methods and    *)
(* the post_delete hook that removes a Host's DNS record.                  *)
(*                                                                         *)
(* Python strings are sequences of one-token strings: <<"a", ".", "o">>    *)
(* is "a.o".  The tables are sets of rows.  A request is a caller that     *)
(* holds one in-memory Host instance (inst[c]): it is built and validated  *)
(* (NewHost) or loaded (Load), then saved, poked, given a secret, queried  *)
(* or deleted.  Every save() writes the whole row from the instance.       *)
(*                                                                         *)
(* The database is transactional and enforces the declared constraints     *)
(* (unique, unique_together, foreign keys with the default cascade):       *)
(* delete() runs the DELETE and the post_delete receivers in one           *)
(* transaction, and an exception leaving a receiver rolls it back.         *)
(*                                                                         *)
(* Fields no method of models.py reads (comment, nameserver_ip, the        *)
(* update algorithm, available_for_everyone, created, last_update) are     *)
(* left out of the rows.                                                   *)
(***************************************************************************)
EXTENDS Integers, Sequences, FiniteSets, TLC

\* ------------------------------------------------------------------ bounds

\* Host primary keys handed out (the auto-increment counter stops here).
MaxHostId == 2
\* Domain primary keys handed out.
MaxDomainId == 2
\* Readings of datetime.now() taken by poke.
MaxClock == 1

\* ------------------------------------------------------------------ inputs

Callers == {"c1", "c2"}
Users == {"u1", "u2"}
\* A nullable foreign key holding no user.
NULL == "NULL"

\* Candidate subdomains typed by a claimant: a label, a label followed by a
\* newline, a label ending in a hyphen, a dotted name, the empty string.
SubdomainInputs ==
    { <<"a">>, <<"a", "\n">>, <<"a", "-">>, <<"a", ".", "e">>, << >> }

\* The candidates of the naming scenario: a label and a dotted name.
NameInputs == { <<"a">>, <<"a", ".", "e">> }

\* Zone names an operator registers; one of them holds a dot.
DomainNames == { <<"o">>, <<"e", ".", "o">> }

\* Update keys an operator types: "AAA=" decodes, "A" has incorrect padding,
\* "!" holds no base64 character at all.
KeyInputs == { <<"A", "A", "A", "=">>, <<"A">>, <<"!">> }

\* Blacklist patterns an operator stores: two literals, and "(" which is
\* not a regular expression.
PatternInputs == { <<"a">>, <<"-">>, <<"(">> }

\* What User.objects.make_random_password and the hasher's salt may draw.
Secrets == { <<"p">>, <<"q">> }
Salts == { <<"x">>, <<"y">> }

\* The address the nameserver may answer a query of each record type with.
AddressOf(rdtype) == IF rdtype = "A" THEN "198.51.100.7" ELSE "2001:db8::7"

\* ----------------------------------------------------------------- strings

\* The characters [a-z0-9] of the subdomain regex.
AlNum == {"a", "b", "e", "o", "p", "q", "x", "y"}

Contains(s, ch) == \E i \in 1..Len(s) : s[i] = ch

\* Index of the first ch in s (s holds one).
FirstIndex(s, ch) == CHOOSE i \in 1..Len(s) : s[i] = ch /\ \A j \in 1..(i-1) : s[j] # ch

\* Index of the last ch in s (s holds one).
LastIndex(s, ch) == CHOOSE i \in 1..Len(s) : s[i] = ch /\ \A j \in (i+1)..Len(s) : s[j] # ch

\* A variant of the split that cuts at the last dot, as fqdn.rsplit('.', 1)
\* would.
SplitLastDot(s) ==
    LET i == LastIndex(s, ".")
    IN  << SubSeq(s, 1, i - 1), SubSeq(s, i + 1, Len(s)) >>

\* fqdn.split('.', 1)
SplitFirstDot(s) ==
    LET i == FirstIndex(s, ".")
    IN  << SubSeq(s, 1, i - 1), SubSeq(s, i + 1, Len(s)) >>

\* ([a-z0-9][a-z0-9\-]*[a-z0-9])|[a-z0-9] matched against the whole of s.
LabelAlternatives(s) ==
    \/ /\ Len(s) >= 2
       /\ s[1] \in AlNum
       /\ s[Len(s)] \in AlNum
       /\ \A i \in 2..(Len(s) - 1) : s[i] \in AlNum \cup {"-"}
    \/ /\ Len(s) = 1
       /\ s[1] \in AlNum

\* regex.search of ^(...)$ : Python's $ matches at the end of the string and
\* also just before a newline that ends the string.
SubdomainRegexSearch(s) ==
    \/ LabelAlternatives(s)
    \/ /\ Len(s) >= 1
       /\ s[Len(s)] = "\n"
       /\ LabelAlternatives(SubSeq(s, 1, Len(s) - 1))

\* re.compile fails on a pattern with an unbalanced parenthesis.
PatternCompiles(p) == ~ Contains(p, "(")

\* Whether the compiled pattern p matches s from position i on: a "." of the
\* pattern matches any character but a newline, any other token itself.
MatchesAt(p, s, i) ==
    /\ i + Len(p) - 1 <= Len(s)
    /\ \A k \in 1..Len(p) :
          IF p[k] = "." THEN s[i + k - 1] # "\n" ELSE s[i + k - 1] = p[k]

\* re.search(p, s) for a pattern that compiles: a match anywhere in s.
ReSearch(p, s) == \E i \in 1..(Len(s) + 1) : MatchesAt(p, s, i)

\* All orders in which the rows of a set can be iterated.
Perms(S) ==
    { f \in [1..Cardinality(S) -> S] : \A i, j \in 1..Cardinality(S) : f[i] = f[j] => i = j }


\* -------------------------------------------------------------- validators

\* domain_blacklist_validator(value) with the rows of BlacklistedDomain
\* iterated in the given order: the loop ends at the first row whose pattern
\* does not compile (re.search raises re.error) or matches (ValidationError).
domain_blacklist_validator(order, value) ==
    LET stops(i) == \/ ~ PatternCompiles(order[i].domain)
                    \/ ReSearch(order[i].domain, value)
    IN  IF \A i \in 1..Len(order) : ~ stops(i)
        THEN "pass"
        ELSE LET i == CHOOSE k \in 1..Len(order) :
                          stops(k) /\ \A j \in 1..(k - 1) : ~ stops(j)
             IN  IF PatternCompiles(order[i].domain)
                 THEN "ValidationError"
                 ELSE "re.error"

\* The base64 alphabet (letters and digits of the model), and the pad.
B64Chars == AlNum \cup {"A"}
B64Pad == "="

\* binascii_find_valid(s from i, 1): the valid character after the one at
\* i, or "none".
B64NextValid(s, i) ==
    LET later == { j \in (i + 1)..Len(s) : s[j] \in B64Chars \cup {B64Pad} }
    IN  IF later = {} THEN "none"
        ELSE s[CHOOSE j \in later : \A k \in later : j <= k]

\* The loop of binascii.a2b_base64 from position i, with quad_pos and
\* leftbits as they stand: the value of leftbits when the loop ends.
RECURSIVE B64LeftBits(_, _, _, _)
B64LeftBits(s, i, quad_pos, leftbits) ==
    IF i > Len(s) THEN leftbits
    ELSE IF s[i] = B64Pad
    THEN IF quad_pos < 2 \/ (quad_pos = 2 /\ B64NextValid(s, i) # B64Pad)
         THEN B64LeftBits(s, i + 1, quad_pos, leftbits)
         ELSE 0
    ELSE IF s[i] \notin B64Chars
    THEN B64LeftBits(s, i + 1, quad_pos, leftbits)
    ELSE LET bits == leftbits + 6
         IN  B64LeftBits(s, i + 1, (quad_pos + 1) % 4,
                         IF bits >= 8 THEN bits - 8 ELSE bits)

\* ns_update_key_validator(value): base64.decodestring raises binascii.Error
\* ("Incorrect padding") when bits are left over, which becomes a
\* ValidationError.
ns_update_key_validator(value) ==
    IF B64LeftBits(value, 1, 0, 0) # 0 THEN "ValidationError" ELSE "pass"

\* Field.clean of Host.subdomain, as full_clean runs it: the exception it
\* ends with, or << >>.  An empty value fails the blank check and the
\* validators are not run; otherwise both validators run, the messages of
\* their ValidationErrors are collected, and a re.error leaves the loop as
\* it is.
clean_subdomain(order, value) ==
    IF value = << >> THEN <<"ValidationError", "This field cannot be blank">>
    ELSE LET bl == domain_blacklist_validator(order, value)
             messages ==
                 (IF SubdomainRegexSearch(value) THEN << >> ELSE <<"Invalid subdomain">>)
                 \o (IF bl = "ValidationError" THEN <<"This domain is not allowed">> ELSE << >>)
         IN  IF bl = "re.error" THEN <<"re.error">>
             ELSE IF messages # << >> THEN <<"ValidationError">> \o messages
             ELSE << >>

\* Field.clean of Domain.nameserver_update_key: the exception, or << >>.
clean_update_key(value) ==
    IF value = << >> THEN <<"ValidationError", "This field cannot be blank">>
    ELSE IF ns_update_key_validator(value) = "ValidationError"
    THEN <<"ValidationError", "Invalid update key">>
    ELSE << >>

\* ----------------------------------------------------------------- secrets

\* The hex digest of sha1(salt + password), as a symbol of its preimage.
Sha1Hex(data) == <<"H(">> \o data \o <<")">>

\* A variant of the hasher that keeps the password as it is.
make_password_plain(secret, salt) == secret

\* make_password(secret, hasher='sha1') with the salt the hasher drew:
\* "sha1$<salt>$<digest>".
make_password(secret, salt) ==
    <<"sha1", "$">> \o salt \o <<"$">> \o Sha1Hex(salt \o secret)

\* verify(host, presented): the presented secret is hashed with the salt of
\* the stored value and compared with it; a stored value that is no sha1
\* encoding verifies nothing.
check_password(presented, encoded) ==
    /\ Len(encoded) >= 3
    /\ encoded[1] = "sha1"
    /\ encoded[2] = "$"
    /\ \E n \in 3..Len(encoded) :
          /\ encoded[n] = "$"
          /\ \A j \in 3..(n - 1) : encoded[j] # "$"
          /\ make_password(presented, SubSeq(encoded, 3, n - 1)) = encoded

\* ------------------------------------------------------------------- state

VARIABLES
    users,          \* the rows of the user table (settings.AUTH_USER_MODEL)
    domains,        \* the rows of Domain
    hosts,          \* the rows of Host: the Host registry
    blacklist,      \* the rows of BlacklistedDomain
    nextHostId,     \* the next primary key of Host
    nextDomainId,   \* the next primary key of Domain
    clock,          \* the last reading of datetime.now()
    inst,           \* per caller: the Host instance its request holds
    last            \* the operation that ended last, and how it ended

vars == << users, domains, hosts, blacklist, nextHostId, nextDomainId, clock,
           inst, last >>

\* A caller that holds no instance.
NoHost ==
    [ id |-> -1, subdomain |-> << >>, domain |-> 0, update_secret |-> << >>,
      last_api_update |-> 0, created_by |-> NULL ]

\* Host(subdomain=..., domain=..., created_by=...) before its first save:
\* no primary key (0), update_secret '' and last_api_update NULL (0).
UnsavedHost(subdomain, domain, created_by) ==
    [ id |-> 0, subdomain |-> subdomain, domain |-> domain,
      update_secret |-> << >>, last_api_update |-> 0, created_by |-> created_by ]

\* How an operation ended: op the call, res "return" or "raise", val the
\* value returned or the exception raised, env what the call was given from
\* outside (the candidate of a validation, the record type and reply of a
\* query), calls the dnstools.delete calls it made, in order.
Out(op, res, val, env, cs) ==
    [ op |-> op, res |-> res, val |-> val, env |-> env, calls |-> cs ]

\* The registry before anything is registered.
Init ==
    /\ users = Users
    /\ domains = {}
    /\ hosts = {}
    /\ blacklist = {}
    /\ nextHostId = 1
    /\ nextDomainId = 1
    /\ clock = 0
    /\ inst = [ c \in Callers |-> NoHost ]
    /\ last = Out("none", "none", << >>, << >>, << >>)

\* ----------------------------------------------------------------- queries

\* self.domain: the Domain row a Host's foreign key names, looked up in the
\* given rows (none when the row is gone).
DomainRows(ds, h) == { d \in ds : d.id = h.domain }

\* Host.get_fqdn: '%s.%s' % (self.subdomain, self.domain.domain), with the
\* Domain row d of the host.
get_fqdn(h, d) == h.subdomain \o <<".">> \o d.domain

\* Host.filter_by_fqdn over the given tables: no dot, no Host; else the
\* Hosts whose subdomain is the part before the first dot and whose Domain
\* is named by the part after it.
filter_by_fqdn(hs, ds, fqdn) ==
    IF ~ Contains(fqdn, ".")
    THEN {}
    ELSE LET splitted == SplitFirstDot(fqdn)
         IN  { h \in hs : /\ h.subdomain = splitted[1]
                          /\ \E d \in DomainRows(ds, h) : d.domain = splitted[2] }

\* Names a caller may ask for: every candidate under every zone name, and a
\* name without a dot.
FqdnInputs ==
    { sub \o <<".">> \o dom : sub \in SubdomainInputs, dom \in DomainNames }
        \cup { <<"a">> }

\* ------------------------------------------------------------- constraints

\* unique_together = (('subdomain', 'domain'),): a row of hs other than row
\* itself holds row's pair.
PairTaken(hs, row) ==
    \E h \in hs : h.id # row.id /\ h.subdomain = row.subdomain /\ h.domain = row.domain

\* A variant of the checks for a table declared without unique_together.
ConstraintsHoldWithoutUnique(row) ==
    /\ DomainRows(domains, row) # {}
    /\ row.created_by \in users

\* What the database checks when row is written: the unique pair and the
\* two required foreign keys.
ConstraintsHold(row) ==
    /\ ~ PairTaken(hosts, row)
    /\ DomainRows(domains, row) # {}
    /\ row.created_by \in users

\* Model.save() of a Host instance that has a primary key: UPDATE of every
\* column when the row exists, INSERT (with the same key) when it does not.
\* The table after a save that the constraints let through.
SavedTable(row) == { h \in hosts : h.id # row.id } \cup { row }

\* ---------------------------------------------------------------- requests

\* Model.full_clean of an unsaved Host: the field's cleaning, then
\* validate_unique, which looks the pair up in the table as it is now.
full_clean(order, h) ==
    LET field == clean_subdomain(order, h.subdomain)
    IN  IF field # << >> THEN field
        ELSE IF PairTaken(hosts, h)
        THEN <<"ValidationError", "Host with this Subdomain and Domain already exists">>
        ELSE << >>

\* A claimant's form is bound and validated: Host(...) is built with one of
\* the candidates for one of the Domains by one of the claimants, and
\* full_clean runs against the blacklist, iterated in whatever order the
\* database returns it.  env keeps the candidate.
NewHost(c, candidates, claimants) ==
    /\ inst[c] = NoHost
    /\ \E subdomain \in candidates, d \in domains, u \in claimants \cap users,
          order \in Perms(blacklist) :
          LET h == UnsavedHost(subdomain, d.id, u)
              err == full_clean(order, h)
          IN  /\ inst' = [ inst EXCEPT ![c] = IF err = << >> THEN h ELSE NoHost ]
              /\ last' = IF err = << >>
                         THEN Out("full_clean", "return", << >>, subdomain, << >>)
                         ELSE Out("full_clean", "raise", err, subdomain, << >>)
    /\ UNCHANGED << users, domains, hosts, blacklist, nextHostId, nextDomainId, clock >>

\* The first save() of a validated instance: INSERT with the next primary
\* key, refused by the database (IntegrityError) when a constraint fails.
SaveNew(c) ==
    /\ inst[c].id = 0
    /\ nextHostId <= MaxHostId
    /\ LET row == [ inst[c] EXCEPT !.id = nextHostId ]
       IN  IF ConstraintsHold(row)
           THEN /\ hosts' = SavedTable(row)
                /\ nextHostId' = nextHostId + 1
                /\ inst' = [ inst EXCEPT ![c] = row ]
                /\ last' = Out("save", "return", << >>, << >>, << >>)
           ELSE /\ last' = Out("save", "raise", <<"IntegrityError">>, << >>, << >>)
                /\ UNCHANGED << hosts, nextHostId, inst >>
    /\ UNCHANGED << users, domains, blacklist, nextDomainId, clock >>

\* A request looks a Host up by name and holds the row it finds.
Load(c) ==
    /\ inst[c] = NoHost
    /\ \E fqdn \in FqdnInputs :
          LET found == filter_by_fqdn(hosts, domains, fqdn)
          IN  IF found = {}
              THEN /\ last' = Out("filter_by_fqdn", "raise", <<"DoesNotExist">>,
                                  << >>, << >>)
                   /\ UNCHANGED inst
              ELSE \E h \in found :
                      /\ inst' = [ inst EXCEPT ![c] = h ]
                      /\ last' = Out("filter_by_fqdn", "return", << >>, << >>, << >>)
    /\ UNCHANGED << users, domains, hosts, blacklist, nextHostId, nextDomainId, clock >>

\* The request ends and drops its instance.
Release(c) ==
    /\ inst[c] # NoHost
    /\ inst' = [ inst EXCEPT ![c] = NoHost ]
    /\ last' = Out("release", "return", << >>, << >>, << >>)
    /\ UNCHANGED << users, domains, hosts, blacklist, nextHostId, nextDomainId, clock >>

\* self.save() of an instance with a primary key, as poke and
\* generate_secret call it: no validator runs; the whole row is written.
SaveInstance(op, row, val) ==
    IF ConstraintsHold(row)
    THEN /\ hosts' = SavedTable(row)
         /\ last' = Out(op, "return", val, << >>, << >>)
    ELSE /\ last' = Out(op, "raise", <<"IntegrityError">>, << >>, << >>)
         /\ UNCHANGED hosts

\* Host.poke: last_api_update = datetime.now(), then save().
Poke(c) ==
    /\ inst[c].id >= 1
    /\ clock < MaxClock
    /\ clock' = clock + 1
    /\ LET row == [ inst[c] EXCEPT !.last_api_update = clock + 1 ]
       IN  /\ inst' = [ inst EXCEPT ![c] = row ]
           /\ SaveInstance("poke", row, << >>)
    /\ UNCHANGED << users, domains, blacklist, nextHostId, nextDomainId >>

\* Host.generate_secret: a random password, its sha1 hash into
\* update_secret, save(), and the password returned.
GenerateSecret(c, secrets, salts) ==
    /\ inst[c].id >= 1
    /\ \E secret \in secrets, salt \in salts :
          LET row == [ inst[c] EXCEPT !.update_secret = make_password(secret, salt) ]
          IN  /\ inst' = [ inst EXCEPT ![c] = row ]
              /\ SaveInstance("generate_secret", row, secret)
    /\ UNCHANGED << users, domains, blacklist, nextHostId, nextDomainId, clock >>

\* ----------------------------------------------------------------- lookups

\* How dnstools.query_ns(fqdn, rdtype, origin=...) may end: one of the
\* resolver's exceptions, an error of the transport, or an address.
QueryReplies(rdtype) ==
    { <<"raise", e>> : e \in {"NXDOMAIN", "NoAnswer", "NoNameservers", "Timeout",
                              "socket.error"} }
        \cup { <<"return", AddressOf(rdtype)>> }

\* A variant of getIPv4 whose except clause leaves Timeout out.
getIPv4_without_timeout(reply) ==
    IF reply[1] = "raise" /\ reply[2] \in {"NXDOMAIN", "NoAnswer", "NoNameservers"}
    THEN [ op |-> "getIPv4", res |-> "return", val |-> << >>,
           env |-> <<"A">> \o reply, calls |-> << >> ]
    ELSE [ op |-> "getIPv4", res |-> reply[1], val |-> << reply[2] >>,
           env |-> <<"A">> \o reply, calls |-> << >> ]

\* Host.getIPv4 once query_ns(self.get_fqdn(), 'A', ...) has ended with
\* reply: the four resolver exceptions of the except clause become '',
\* anything else passes through.  env keeps the record type asked for and
\* the reply.
getIPv4(reply) ==
    IF reply[1] = "raise" /\ reply[2] \in {"NXDOMAIN", "NoAnswer", "NoNameservers", "Timeout"}
    THEN Out("getIPv4", "return", << >>, <<"A">> \o reply, << >>)
    ELSE Out("getIPv4", reply[1], << reply[2] >>, <<"A">> \o reply, << >>)

\* Host.getIPv6, the same with record type AAAA.
getIPv6(reply) ==
    IF reply[1] = "raise" /\ reply[2] \in {"NXDOMAIN", "NoAnswer", "NoNameservers", "Timeout"}
    THEN Out("getIPv6", "return", << >>, <<"AAAA">> \o reply, << >>)
    ELSE Out("getIPv6", reply[1], << reply[2] >>, <<"AAAA">> \o reply, << >>)

\* A request asks for the published address of the Host it holds.
\* self.domain is read from the table; when the Domain is gone, get_fqdn
\* raises before any query is made.
GetIPv4(c) ==
    /\ inst[c].id >= 1
    /\ IF DomainRows(domains, inst[c]) = {}
       THEN last' = Out("getIPv4", "raise", <<"DoesNotExist">>, << >>, << >>)
       ELSE \E reply \in QueryReplies("A") : last' = getIPv4(reply)
    /\ UNCHANGED << users, domains, hosts, blacklist, nextHostId, nextDomainId,
                    clock, inst >>

GetIPv6(c) ==
    /\ inst[c].id >= 1
    /\ IF DomainRows(domains, inst[c]) = {}
       THEN last' = Out("getIPv6", "raise", <<"DoesNotExist">>, << >>, << >>)
       ELSE \E reply \in QueryReplies("AAAA") : last' = getIPv6(reply)
    /\ UNCHANGED << users, domains, hosts, blacklist, nextHostId, nextDomainId,
                    clock, inst >>

\* ---------------------------------------------------------------- deletion

\* A variant of the hook that passes the Host's name as the origin too.
post_delete_host_fqdn_origin(h, d, ok) ==
    [ fqdn |-> get_fqdn(h, d), origin |-> get_fqdn(h, d), ok |-> ok ]

\* post_delete_host for instance h whose Domain row is d: the call
\* dnstools.delete(obj.get_fqdn(), origin=obj.domain.domain), which ends
\* normally (ok) or raises.
post_delete_host(h, d, ok) ==
    [ fqdn |-> get_fqdn(h, d), origin |-> d.domain, ok |-> ok ]

AllOk(cs) == \A i \in 1..Len(cs) : cs[i].ok

\* The dnstools.delete calls a delete() that collected the Hosts hs may
\* make: post_delete is sent for each in some order, and the first call
\* that raises (the k-th, none when k = 0) ends the operation.
CascadeCalls(hs) ==
    { [ i \in 1..(IF k = 0 THEN Cardinality(hs) ELSE k) |->
          post_delete_host(order[i],
                           CHOOSE d \in domains : d.id = order[i].domain,
                           k = 0 \/ i < k) ] :
        order \in Perms(hs), k \in 0..Cardinality(hs) }

\* How a delete() that made the calls cs ended: an exception of the hook
\* is not caught anywhere and reaches the caller.
DeleteOut(op, cs) ==
    IF AllOk(cs)
    THEN Out(op, "return", << >>, << >>, cs)
    ELSE Out(op, "raise", <<"DnsUpdateError">>, << >>, cs)

\* instance.delete() of the Host a request holds: DELETE of its row (no row
\* when it is already gone), then post_delete for the instance, in one
\* transaction.  When the hook raises, the transaction is rolled back and
\* the error reaches the caller, who still holds the instance.
Delete(c) ==
    /\ inst[c].id >= 1
    /\ IF DomainRows(domains, inst[c]) = {}
       THEN /\ last' = Out("delete", "raise", <<"DoesNotExist">>, << >>, << >>)
            /\ UNCHANGED << hosts, inst >>
       ELSE \E d \in DomainRows(domains, inst[c]), ok \in BOOLEAN :
               LET cs == << post_delete_host(inst[c], d, ok) >>
               IN  /\ last' = DeleteOut("delete", cs)
                   /\ IF AllOk(cs)
                      THEN /\ hosts' = { h \in hosts : h.id # inst[c].id }
                           /\ inst' = [ inst EXCEPT ![c] = NoHost ]
                      ELSE UNCHANGED << hosts, inst >>
    /\ UNCHANGED << users, domains, blacklist, nextHostId, nextDomainId, clock >>

\* An operator deletes a Domain: Host.domain is a ForeignKey with the
\* default on_delete, so the Hosts of the Domain are collected and deleted
\* with it, post_delete sent for each.
DeleteDomain ==
    /\ \E d \in domains :
          LET hs == { h \in hosts : h.domain = d.id }
          IN  \E cs \in CascadeCalls(hs) :
                 /\ last' = DeleteOut("delete_domain", cs)
                 /\ IF AllOk(cs)
                    THEN /\ hosts' = hosts \ hs
                         /\ domains' = domains \ {d}
                    ELSE UNCHANGED << hosts, domains >>
    /\ UNCHANGED << users, blacklist, nextHostId, nextDomainId, clock, inst >>

\* A user is deleted: created_by is a ForeignKey with the default
\* on_delete on all three tables, so the user's blacklist rows, Domains and
\* Hosts go too, and with the Domains their Hosts.
DeleteUser ==
    /\ \E u \in users :
          LET ds == { d \in domains : d.created_by = u }
              hs == { h \in hosts : h.created_by = u \/ \E d \in ds : d.id = h.domain }
          IN  \E cs \in CascadeCalls(hs) :
                 /\ last' = DeleteOut("delete_user", cs)
                 /\ IF AllOk(cs)
                    THEN /\ hosts' = hosts \ hs
                         /\ domains' = domains \ ds
                         /\ blacklist' = { b \in blacklist : b.created_by # u }
                         /\ users' = users \ {u}
                    ELSE UNCHANGED << hosts, domains, blacklist, users >>
    /\ UNCHANGED << nextHostId, nextDomainId, clock, inst >>

\* ------------------------------------------------------------------ admin

\* An operator registers a Domain: the update key is cleaned and the name
\* must be new (unique=True); nothing is written otherwise.  env keeps the
\* key.
CreateDomain(names, keys, creators) ==
    /\ nextDomainId <= MaxDomainId
    /\ \E name \in names, key \in keys, u \in creators \cap (users \cup {NULL}) :
          LET err == IF clean_update_key(key) # << >> THEN clean_update_key(key)
                     ELSE IF \E d \in domains : d.domain = name
                     THEN <<"ValidationError", "Domain with this Domain already exists">>
                     ELSE << >>
          IN  IF err = << >>
              THEN /\ domains' = domains \cup
                         { [ id |-> nextDomainId, domain |-> name,
                             nameserver_update_key |-> key, created_by |-> u ] }
                   /\ nextDomainId' = nextDomainId + 1
                   /\ last' = Out("create_domain", "return", << >>, key, << >>)
              ELSE /\ last' = Out("create_domain", "raise", err, key, << >>)
                   /\ UNCHANGED << domains, nextDomainId >>
    /\ UNCHANGED << users, hosts, blacklist, nextHostId, clock, inst >>

\* A variant of the addition that also deletes the Hosts the new pattern
\* matches.
AddBlacklistPurging(patterns, creators) ==
    /\ \E p \in patterns, u \in creators :
          /\ \A b \in blacklist : b.domain # p
          /\ blacklist' = blacklist \cup { [ domain |-> p, created_by |-> u ] }
          /\ hosts' = { h \in hosts : ~ (PatternCompiles(p) /\ ReSearch(p, h.subdomain)) }
    /\ last' = Out("add_blacklist", "return", << >>, << >>, << >>)
    /\ UNCHANGED << users, domains, nextHostId, nextDomainId, clock, inst >>

\* An operator adds a blacklist row; the pattern is any string not stored
\* yet (unique=True), no validator looks at it.
AddBlacklist(patterns, creators) ==
    /\ \E p \in patterns, u \in creators :
          /\ \A b \in blacklist : b.domain # p
          /\ blacklist' = blacklist \cup { [ domain |-> p, created_by |-> u ] }
    /\ last' = Out("add_blacklist", "return", << >>, << >>, << >>)
    /\ UNCHANGED << users, domains, hosts, nextHostId, nextDomainId, clock, inst >>

\* An operator changes the pattern of a blacklist row.
ChangeBlacklist(patterns) ==
    /\ \E b \in blacklist, p \in patterns :
          /\ \A other \in blacklist : other.domain # p
          /\ blacklist' = (blacklist \ {b}) \cup { [ b EXCEPT !.domain = p ] }
    /\ last' = Out("change_blacklist", "return", << >>, << >>, << >>)
    /\ UNCHANGED << users, domains, hosts, nextHostId, nextDomainId, clock, inst >>

\* An operator removes a blacklist row.
DeleteBlacklist ==
    /\ \E b \in blacklist : blacklist' = blacklist \ {b}
    /\ last' = Out("delete_blacklist", "return", << >>, << >>, << >>)
    /\ UNCHANGED << users, domains, hosts, nextHostId, nextDomainId, clock, inst >>

\* ----------------------------------------------------------- specifications

\* Names: Domains come and go, names are claimed, looked up, poked and
\* deleted by two concurrent callers, users are deleted.  The blacklist
\* stays empty and no secret is issued.
Next ==
    \/ CreateDomain(DomainNames, { <<"A", "A", "A", "=">> }, {NULL, "u1"})
    \/ DeleteDomain
    \/ DeleteUser
    \/ \E c \in Callers : NewHost(c, NameInputs, {"u1"})
    \/ \E c \in Callers : SaveNew(c)
    \/ \E c \in Callers : Load(c)
    \/ \E c \in Callers : Release(c)
    \/ \E c \in Callers : Poke(c)
    \/ \E c \in Callers : Delete(c)

Spec == Init /\ [][Next]_vars

\* A registry the naming scenario reaches: Domain "o" registered by the
\* operator, "a.o" claimed by u1, no request in progress.
InitClaimed ==
    /\ users = Users
    /\ domains = { [ id |-> 1, domain |-> <<"o">>,
                     nameserver_update_key |-> <<"A", "A", "A", "=">>,
                     created_by |-> NULL ] }
    /\ hosts = { [ UnsavedHost(<<"a">>, 1, "u1") EXCEPT !.id = 1 ] }
    /\ blacklist = {}
    /\ nextHostId = 2
    /\ nextDomainId = 2
    /\ clock = 0
    /\ inst = [ c \in Callers |-> NoHost ]
    /\ last = Out("release", "return", << >>, << >>, << >>)

\* Secrets: two concurrent callers load the claimed Host, poke it, issue
\* secrets for it and delete it.
NextSecret ==
    \/ \E c \in Callers : Load(c)
    \/ \E c \in Callers : Release(c)
    \/ \E c \in Callers : Poke(c)
    \/ \E c \in Callers : GenerateSecret(c, Secrets, Salts)
    \/ \E c \in Callers : Delete(c)

SpecSecret == InitClaimed /\ [][NextSecret]_vars

\* Lookups: two concurrent callers load the claimed Host and ask for its
\* addresses while it, or its Domain, may be deleted.
NextLookup ==
    \/ \E c \in Callers : Load(c)
    \/ \E c \in Callers : Release(c)
    \/ \E c \in Callers : GetIPv4(c)
    \/ \E c \in Callers : GetIPv6(c)
    \/ \E c \in Callers : Poke(c)
    \/ \E c \in Callers : Delete(c)
    \/ DeleteDomain

SpecLookup == InitClaimed /\ [][NextLookup]_vars

\* Policy: the operator registers Domain "o" and edits the blacklist while
\* a caller validates candidates, saves, pokes, issues a secret and
\* deletes.
NextPolicy ==
    \/ CreateDomain({ <<"o">> }, KeyInputs, {NULL})
    \/ AddBlacklist(PatternInputs, {NULL})
    \/ ChangeBlacklist(PatternInputs)
    \/ DeleteBlacklist
    \/ NewHost("c1", SubdomainInputs, {"u1"})
    \/ SaveNew("c1")
    \/ Load("c1")
    \/ Release("c1")
    \/ Poke("c1")
    \/ GenerateSecret("c1", { <<"p">> }, { <<"x">> })
    \/ Delete("c1")

SpecPolicy == Init /\ [][NextPolicy]_vars

\* ---------------------------------------------------------------- properties

\* Some row of the table has the primary key of h.
Stored(hs, h) == \E g \in hs : g.id = h.id

\* The name of Host h, with its Domain looked up in ds.
Fqdns(ds, h) == { get_fqdn(h, d) : d \in DomainRows(ds, h) }

\* C1: deleting an Active Host removes it from the registry even when the
\* dnstools.delete call of the post_delete hook fails: after delete() ends,
\* normally or with the error, filter_by_fqdn of the Host's name finds no
\* Host.
DeleteRemovesHost ==
    [][ \A c \in Callers : \A h \in hosts :
          (h.id = inst[c].id /\ Delete(c)) =>
              \A fqdn \in Fqdns(domains, h) :
                  filter_by_fqdn(hosts', domains', fqdn) = {} ]_vars

\* At most one Host per (subdomain, domain) pair.
UniquePair ==
    \A h1, h2 \in hosts :
        (h1.subdomain = h2.subdomain /\ h1.domain = h2.domain) => h1 = h2

\* C2: the registry never holds two Hosts with one (subdomain, domain)
\* pair, and of the attempts to create a Host with a pair, made one after
\* the other or by two callers at once, one succeeds and every other ends
\* with a conflict: validation passes only while the pair is free, and the
\* first save of a validated instance whose Domain and user exist writes
\* the row exactly when the pair is still free and raises IntegrityError,
\* writing nothing, when it is taken.
CreateConflict ==
    /\ []UniquePair
    /\ [][ \A c \in Callers :
             /\ (NewHost(c, NameInputs, {"u1"}) /\ inst'[c] # NoHost)
                    => ~ PairTaken(hosts, inst'[c])
             /\ (SaveNew(c) /\ PairTaken(hosts, inst[c]))
                    => /\ hosts' = hosts
                       /\ last'.res = "raise"
                       /\ last'.val = <<"IntegrityError">>
             /\ ( /\ SaveNew(c)
                  /\ ~ PairTaken(hosts, inst[c])
                  /\ DomainRows(domains, inst[c]) # {}
                  /\ inst[c].created_by \in users )
                    => /\ last'.res = "return"
                       /\ inst'[c] \in hosts'
                       /\ hosts' = hosts \cup { inst'[c] }
                       /\ inst'[c].subdomain = inst[c].subdomain
                       /\ inst'[c].domain = inst[c].domain ]_vars

\* Two callers validated the same pair while it was free; one saved, and the
\* save of the other has just been refused.
CreateConflictReached ==
    /\ last.op = "save"
    /\ last.res = "raise"
    /\ \E c1, c2 \in Callers :
          /\ inst[c1].id = 0
          /\ inst[c2] \in hosts
          /\ inst[c1].subdomain = inst[c2].subdomain
          /\ inst[c1].domain = inst[c2].domain
          /\ inst[c1].created_by \in users

\* C3: right after generate_secret returns, the returned password verifies
\* against the update_secret stored for the Host, no other password does
\* (one issued before included), and what is stored is not a password but
\* its hash.
SecretRoundTrip ==
    [][ \A c \in Callers :
          (GenerateSecret(c, Secrets, Salts) /\ last'.res = "return") =>
              \E h \in hosts' :
                  /\ h.id = inst[c].id
                  /\ check_password(last'.val, h.update_secret)
                  /\ \A other \in Secrets \ { last'.val } :
                         ~ check_password(other, h.update_secret)
                  /\ h.update_secret \notin Secrets ]_vars

\* A secret has just been issued for a Host for which another caller still
\* holds the hash of a different, earlier secret.
SecretReissued ==
    /\ last.op = "generate_secret"
    /\ last.res = "return"
    /\ \E h \in hosts, c \in Callers :
          /\ inst[c].id = h.id
          /\ check_password(last.val, h.update_secret)
          /\ inst[c].update_secret # << >>
          /\ ~ check_password(last.val, inst[c].update_secret)

\* C4: every Host of the registry has its Domain, get_fqdn is the
\* subdomain, a dot and the Domain's name, and filter_by_fqdn of that name
\* finds the Host and no other.
FqdnRoundTrip ==
    \A h \in hosts :
        /\ DomainRows(domains, h) # {}
        /\ \A d \in DomainRows(domains, h) :
              /\ get_fqdn(h, d) = h.subdomain \o <<".">> \o d.domain
              /\ filter_by_fqdn(hosts, domains, get_fqdn(h, d)) = { h }

\* Two Hosts with one subdomain, one of them under a Domain whose name holds
\* a dot.
DottedDomainClaimed ==
    \E h1, h2 \in hosts :
        /\ h1 # h2
        /\ h1.subdomain = h2.subdomain
        /\ \E d \in DomainRows(domains, h1) : Contains(d.domain, ".")

\* A stored pattern matches somewhere inside s.
Matches(p, s) == PatternCompiles(p) /\ ReSearch(p, s)

\* C5: for every blacklist and candidate the validator has a result, it
\* rejects exactly when some entry matches inside the candidate, in
\* whatever order the entries are iterated; and so does the validation of
\* a claim.
BlacklistDecides ==
    /\ \A s \in SubdomainInputs \ { << >> } : \A order \in Perms(blacklist) :
          /\ domain_blacklist_validator(order, s) # "re.error"
          /\ (domain_blacklist_validator(order, s) = "ValidationError")
                 <=> (\E b \in blacklist : Matches(b.domain, s))
    /\ (last.op = "full_clean" /\ last.env # << >>) =>
          /\ last.val # <<"re.error">>
          /\ (\E i \in 1..Len(last.val) : last.val[i] = "This domain is not allowed")
                 <=> (\E b \in blacklist : Matches(b.domain, last.env))

\* A single DNS label: letters, digits and inner hyphens, nothing else.
IsLabel(s) ==
    /\ Len(s) >= 1
    /\ s[1] \in AlNum
    /\ s[Len(s)] \in AlNum
    /\ \A i \in 1..Len(s) : s[i] \in AlNum \cup {"-"}

\* Base64 text: groups of four characters of the alphabet, the last group
\* padded with at most two "=".
IsBase64(s) ==
    /\ Len(s) % 4 = 0
    /\ \A i \in 1..Len(s) :
          \/ s[i] \in B64Chars
          \/ /\ s[i] = B64Pad
             /\ i >= Len(s) - 1
             /\ \A j \in (i + 1)..Len(s) : s[j] = B64Pad

\* C6: no write leaves in the registry a Host whose subdomain is not a
\* label or matched a blacklist entry when the row was written, or a Domain
\* whose update key is not base64: a ValidationError always comes before
\* the write.
ValidBeforeWrite ==
    /\ [](\A d \in domains : IsBase64(d.nameserver_update_key))
    /\ [](\A h \in hosts : IsLabel(h.subdomain))
    /\ [][ \A h \in hosts' \ hosts :
             ~ \E b \in blacklist' : Matches(b.domain, h.subdomain) ]_vars

\* The resolver's exceptions that mean "address unknown".
AddressUnknown == {"NXDOMAIN", "NoAnswer", "NoNameservers", "Timeout"}

\* C7: getIPv4 asks for type A and getIPv6 for type AAAA; a query that ends
\* with NXDOMAIN, NoAnswer, NoNameservers or Timeout makes the method return
\* the empty result, an answer is returned as it is, and the call changes
\* no Host and no Domain.
LookupMapping ==
    [][ (last'.op \in {"getIPv4", "getIPv6"}) =>
          /\ hosts' = hosts
          /\ domains' = domains
          /\ last'.env # << >> =>
                /\ last'.env[1] = (IF last'.op = "getIPv4" THEN "A" ELSE "AAAA")
                /\ (last'.env[2] = "raise" /\ last'.env[3] \in AddressUnknown)
                       => (last'.res = "return" /\ last'.val = << >>)
                /\ (last'.env[2] = "return")
                       => (last'.res = "return" /\ last'.val = << last'.env[3] >>) ]_vars

\* A type A query of a stored Host timed out and getIPv4 returned the
\* empty result.
LookupTimedOut ==
    /\ last.op = "getIPv4"
    /\ last.env = <<"A", "raise", "Timeout">>
    /\ last.res = "return"
    /\ last.val = << >>
    /\ \E c \in Callers : inst[c] \in hosts

\* C8: a step that adds or changes a blacklist row leaves the Host and
\* Domain tables as they are, so every Host still resolves by its name,
\* matched by the new pattern or not; and a claim validated afterwards
\* passes only if no row of the blacklist as it is then matches it.
BlacklistFrame ==
    [][ /\ (last'.op \in {"add_blacklist", "change_blacklist"}) =>
              /\ hosts' = hosts
              /\ domains' = domains
              /\ \A h \in hosts : \A fqdn \in Fqdns(domains, h) :
                     h \in filter_by_fqdn(hosts', domains', fqdn)
        /\ (last'.op = "full_clean" /\ last'.res = "return") =>
              \A b \in blacklist' : ~ Matches(b.domain, last'.env) ]_vars

\* A pattern that matches the subdomain of a stored Host has just been
\* added, and the Host still resolves.
BlacklistedAfterClaim ==
    /\ last.op = "add_blacklist"
    /\ \E h \in hosts, b \in blacklist :
          /\ Matches(b.domain, h.subdomain)
          /\ \A fqdn \in Fqdns(domains, h) : h \in filter_by_fqdn(hosts, domains, fqdn)

\* The Hosts of hs whose row is gone from gs.
Left(hs, gs) == { h \in hs : ~ Stored(gs, h) }

\* The calls of cs made for Host h of Domain row d.
CallsFor(cs, h, d) ==
    { i \in 1..Len(cs) : cs[i].fqdn = get_fqdn(h, d) /\ cs[i].origin = d.domain }

DeleteOps == {"delete", "delete_domain", "delete_user"}

NoStaleOverwrite ==
    [][ \A c \in Callers : \A h \in hosts : \A g \in hosts' :
          (h.id = g.id /\ h.id = inst[c].id) =>
              /\ Poke(c) => g.update_secret = h.update_secret
              /\ GenerateSecret(c, Secrets, Salts)
                     => g.last_api_update = h.last_api_update ]_vars

=============================================================================
